---- MODULE Spec2Model ----
(***************************************************************************)
(* A model of engiffen (src/src/lib.rs): the conversion of a sequence of   *)
(* RGBA frames into a palettized Gif by one of two quantizers.             *)
(*                                                                         *)
(* A frame is [width, height, data] with data the pixels in raster order   *)
(* (what image's pixels() yields); a pixel is <<r, g, b, a>>.              *)
(* Some(x) is <<x>> and None is <<>>.  Indices written to index frames and *)
(* held in maps are 0-based, as in the code.                               *)
(*                                                                         *)
(* The palette ceiling is 256 in the code (lib.rs:364-365, and the 256 of  *)
(* NeuQuant::new at lib.rs:316).  The model carries it as PaletteMax and   *)
(* scales it down so that frames of a few pixels hold more distinct colors *)
(* than the palette has room for.                                          *)
(*                                                                         *)
(* The Gif's width and height are u16 fields (lib.rs:131-132), filled by   *)
(* `as u16` casts (lib.rs:281-282) that keep a value modulo 65536.  The    *)
(* model carries the number of values of such a field as FieldSize and     *)
(* scales it down so that a frame of a few pixels is as wide as the field  *)
(* has values.  The delay keeps its 16 bits (U16).                         *)
(***************************************************************************)
EXTENDS Integers, Sequences, FiniteSets, TLC

\* ---------------------------------------------------------------- bounds
MaxFrames == 3
PaletteMax == 2
FieldSize == 4

\* ------------------------------------------------------------- constants
U8 == 256
U16 == 65536

\* ------------------------------------------------------------ the inputs
Red == <<255, 0, 0, 255>>
RedHalf == <<255, 0, 0, 128>>
ClearBlack == <<0, 0, 0, 0>>
ClearWhite == <<255, 255, 255, 0>>

RGBA == {Red, RedHalf, ClearBlack, ClearWhite}

Naive == [kind |-> "Naive", sample_rate |-> 0]

NeuQuant(n) == [kind |-> "NeuQuant", sample_rate |-> n]

Quantizer == {Naive} \cup {NeuQuant(n) : n \in 0..2}

FpsSet == {0, 30}

\* frame rates whose delay is a thousand, is not a multiple of ten, is one and
\* is zero
FpsMore == {1, 7, 1000, 1001}

DimSet == {<<1, 1>>, <<2, 1>>, <<2, 2>>}

Image(w, h, d) == [width |-> w, height |-> h, data |-> d]

SeqsUpTo(S, n) == UNION {[1..m -> S] : m \in 0..n}

\* frames of one solid color, of every size: the inputs of the size checks
SolidImages == {Image(d[1], d[2], [i \in 1..(d[1] * d[2]) |-> Red]) : d \in DimSet}

\* single-pixel frames: two opaque or translucent colors of one RGB and a
\* transparent one; and two transparent colors
PixelImages == {Image(1, 1, <<c>>) : c \in {Red, RedHalf, ClearBlack}}

ClearPixelImages == {Image(1, 1, <<c>>) : c \in {ClearBlack, ClearWhite}}

\* one frame of every content, for each size of more than one pixel
WideImages == {Image(3, 1, d) : d \in [1..3 -> RGBA]}

SquareImages == {Image(2, 2, d) : d \in [1..4 -> RGBA]}

\* 2x2 frames of a translucent and a transparent color
TwoColorSquareImages == {Image(2, 2, d) : d \in [1..4 -> {RedHalf, ClearWhite}]}

\* frames of one row that are as wide as a width field has values, and wider
LongImages ==
    {Image(w, 1, [i \in 1..w |-> Red]) : w \in {FieldSize, FieldSize + 1}}

\* one or two frames of one opaque pixel
RedPixel == Image(1, 1, <<Red>>)

\* ----------------------------------------------------------------- state
VARIABLES imgs, fps, quantizer, pc, k, width, height, parts, grouping, colors,
          quant, cache, transparency, frequencies, order, sorted, palette, map,
          palettized_imgs, palette_bytes, result, first, wpc, calls, wresult

\* the state of a call of engiffen, and of a call of Gif::write
engiffen_vars ==
    <<imgs, fps, quantizer, pc, k, width, height, parts, grouping, colors,
      quant, cache, transparency, frequencies, order, sorted, palette, map,
      palettized_imgs, palette_bytes, result, first>>

write_vars == <<wpc, calls, wresult>>

vars == <<imgs, fps, quantizer, pc, k, width, height, parts, grouping, colors,
          quant, cache, transparency, frequencies, order, sorted, palette, map,
          palettized_imgs, palette_bytes, result, first, wpc, calls, wresult>>

EmptyMap == [c \in {} |-> 0]

NoGif == [palette |-> <<>>, transparency |-> <<>>, width |-> 0, height |-> 0,
          images |-> <<>>, delay |-> 0]

NoResult == [tag |-> "none", mismatch |-> <<>>, gif |-> NoGif]

ErrNoImages == [tag |-> "NoImages", mismatch |-> <<>>, gif |-> NoGif]

ErrMismatch(a, b) == [tag |-> "Mismatch", mismatch |-> <<a, b>>, gif |-> NoGif]

Panic == [tag |-> "panic", mismatch |-> <<>>, gif |-> NoGif]

Ok(g) == [tag |-> "Gif", mismatch |-> <<>>, gif |-> g]

NoQuant == [index |-> EmptyMap, rgb |-> <<>>]

\* what is kept of the run before: its result, how its reduce was grouped and
\* the order in which its frequency table was iterated
NoFirst == [result |-> NoResult, grouping |-> {}, order |-> <<>>]

\* the locals of one call of engiffen, before it runs
Fresh ==
    /\ pc = "start"
    /\ k = 0
    /\ width = 0
    /\ height = 0
    /\ parts = <<>>
    /\ grouping = {}
    /\ colors = <<>>
    /\ quant = NoQuant
    /\ cache = EmptyMap
    /\ transparency = <<>>
    /\ frequencies = EmptyMap
    /\ order = <<>>
    /\ sorted = <<>>
    /\ palette = <<>>
    /\ map = EmptyMap
    /\ palettized_imgs = <<>>
    /\ palette_bytes = <<>>
    /\ result = NoResult

Inputs ==
    \/ /\ imgs \in SeqsUpTo(SolidImages, MaxFrames)
       /\ quantizer \in Quantizer
       /\ fps \in FpsSet
    \/ /\ imgs \in (SeqsUpTo(PixelImages, MaxFrames)
                      \cup [1..1 -> WideImages] \cup [1..1 -> SquareImages])
       /\ imgs # <<>>
       /\ quantizer = Naive
       /\ fps = 30
    \/ /\ imgs \in (SeqsUpTo(ClearPixelImages, MaxFrames)
                      \cup [1..1 -> WideImages] \cup [1..1 -> TwoColorSquareImages])
       /\ imgs # <<>>
       /\ quantizer \in {NeuQuant(1), NeuQuant(2)}
       /\ fps = 30
    \/ /\ imgs \in {<<RedPixel>>, <<RedPixel, RedPixel>>}
       /\ quantizer \in {Naive, NeuQuant(1)}
       /\ fps \in FpsMore
    \/ /\ imgs \in [1..1 -> LongImages]
       /\ quantizer \in {Naive, NeuQuant(1)}
       /\ fps = 30

Init ==
    /\ Inputs
    /\ Fresh
    /\ first = NoFirst
    /\ wpc = "idle"
    /\ calls = <<>>
    /\ wresult = "none"

\* ------------------------------------------------------------- engiffen
dimensions(img) == <<img.width, img.height>>

is_empty_never(s) == FALSE

is_empty(s) == Len(s) = 0

\* lib.rs:254-260; imgs[0] panics on a slice that has no first element
CheckEmpty ==
    /\ pc = "start"
    /\ IF is_empty(imgs)
       THEN /\ result' = ErrNoImages
            /\ pc' = "done"
            /\ k' = k
       ELSE IF Len(imgs) = 0
       THEN /\ result' = Panic
            /\ pc' = "done"
            /\ k' = k
       ELSE /\ pc' = "dims"
            /\ k' = 1
            /\ result' = result
    /\ UNCHANGED <<imgs, fps, quantizer, width, height, parts, colors, quant,
                   cache, transparency, sorted, palette, map, palettized_imgs,
                   palette_bytes, first, grouping, frequencies, order>>
    /\ UNCHANGED write_vars

\* imgs[0] of lib.rs:260
first_dimensions == dimensions(imgs[1])

dimensions_differ_in_width(a, b) == a[1] # b[1]

dimensions_differ_in_height(a, b) == a[2] # b[2]

dimensions_differ(a, b) == a # b

\* one iteration of the loop of lib.rs:262-267
CheckDim ==
    /\ pc = "dims"
    /\ k <= Len(imgs)
    /\ LET other_dimensions == dimensions(imgs[k])
       IN  IF dimensions_differ(first_dimensions, other_dimensions)
           THEN /\ result' = ErrMismatch(first_dimensions, other_dimensions)
                /\ pc' = "done"
                /\ k' = k
           ELSE /\ k' = k + 1
                /\ UNCHANGED <<pc, result>>
    /\ UNCHANGED <<imgs, fps, quantizer, width, height, parts, colors, quant,
                   cache, transparency, sorted, palette, map, palettized_imgs,
                   palette_bytes, first, grouping, frequencies, order>>
    /\ UNCHANGED write_vars

\* lib.rs:268-274: the loop found no mismatch; the quantizer is entered
DimsDone ==
    /\ pc = "dims"
    /\ k > Len(imgs)
    /\ width' = first_dimensions[1]
    /\ height' = first_dimensions[2]
    /\ pc' = IF quantizer.kind = "NeuQuant" THEN "neuquant" ELSE "naive"
    /\ UNCHANGED <<imgs, fps, quantizer, k, parts, colors, quant, cache,
                   transparency, sorted, palette, map, palettized_imgs,
                   palette_bytes, result, first, grouping, frequencies,
                   order>>
    /\ UNCHANGED write_vars

\* --------------------------------------------------- neuquant_palettize
\* (x, y) of the i-th pixel pixels() yields, i from 1
px_x(img, i) == (i - 1) % img.width

px_y(img, i) == (i - 1) \div img.width

transparent_black == <<0, 0, 0, 0>>

skipped_off_both(sample_rate, x, y) ==
    sample_rate > 1 /\ (x % sample_rate # 0 /\ y % sample_rate # 0)

\* lib.rs:295-299: the pixel is left out of the training sample
skipped(sample_rate, x, y) ==
    sample_rate > 1 /\ (x % sample_rate # 0 \/ y % sample_rate # 0)

\* lib.rs:300-305: the four bytes a sampled pixel adds
sample_bytes(px) ==
    IF px[4] = 0 THEN transparent_black ELSE <<px[1], px[2], px[3], 255>>

\* lib.rs:293-307: temp, built from pixel i on
RECURSIVE temp_from(_, _, _)
temp_from(img, sample_rate, i) ==
    IF i > Len(img.data) THEN <<>>
    ELSE (IF skipped(sample_rate, px_x(img, i), px_y(img, i)) THEN <<>>
          ELSE sample_bytes(img.data[i]))
         \o temp_from(img, sample_rate, i + 1)

temp(img, sample_rate) == temp_from(img, sample_rate, 1)

\* How rayon's reduce may split frames lo..hi: the range is folded by one
\* task, or split in the middle (split_at(len / 2)) into two ranges that are
\* reduced on their own and then combined.  A grouping is the set of the
\* ranges <<lo, hi>> that are folded by one task.
RECURSIVE groupings(_, _)
groupings(lo, hi) ==
    {{<<lo, hi>>}} \cup
    (IF hi > lo
     THEN LET mid == lo + (hi - lo + 1) \div 2
          IN  {l \cup r : l \in groupings(lo, mid - 1), r \in groupings(mid, hi)}
     ELSE {})

\* lib.rs:308-311: the reduce's operation
extend(acc, img) == acc \o img

\* lib.rs:308: one task folds the items lo..hi into acc, left to right
RECURSIVE fold_extend(_, _, _, _)
fold_extend(acc, items, lo, hi) ==
    IF lo > hi THEN acc
    ELSE fold_extend(extend(acc, items[lo]), items, lo + 1, hi)

\* lib.rs:308-311: the reduce over the items lo..hi, grouped as g
RECURSIVE reduce_extend(_, _, _, _)
reduce_extend(items, g, lo, hi) ==
    IF <<lo, hi>> \in g THEN fold_extend(<<>>, items, lo, hi)
    ELSE LET mid == lo + (hi - lo + 1) \div 2
         IN  extend(reduce_extend(items, g, lo, mid - 1),
                    reduce_extend(items, g, mid, hi))

\* lib.rs:289-307: image_len divides by the stride twice; the parallel map
\* gives one temp per frame
NeuSample ==
    /\ pc = "neuquant"
    /\ IF quantizer.sample_rate = 0
       THEN /\ result' = Panic
            /\ pc' = "done"
            /\ parts' = parts
       ELSE /\ parts' = [i \in 1..Len(imgs) |-> temp(imgs[i], quantizer.sample_rate)]
            /\ pc' = "neu_reduce"
            /\ result' = result
    /\ UNCHANGED <<imgs, fps, quantizer, k, width, height, grouping, colors,
                   quant, cache, transparency, frequencies, order, sorted,
                   palette, map, palettized_imgs, palette_bytes, first>>
    /\ UNCHANGED write_vars

\* lib.rs:308-311: the reduce, in any of its groupings
NeuReduce ==
    /\ pc = "neu_reduce"
    /\ \E g \in groupings(1, Len(parts)) :
          colors' = reduce_extend(parts, g, 1, Len(parts))
    /\ pc' = "neu_train"
    /\ UNCHANGED <<imgs, fps, quantizer, k, width, height, parts, grouping,
                   quant, cache, transparency, frequencies, order, sorted,
                   palette, map, palettized_imgs, palette_bytes, result, first>>
    /\ UNCHANGED write_vars

\* The networks NeuQuant::new(10, 256, &colors) may return: a nearest-index
\* lookup over raw RGBA values and PaletteMax RGB neurons (color_quant is
\* not part of this repository; every lookup is allowed, and the neurons
\* of one network are taken to be of one color).
NeuronRGB == {<<0, 0, 0>>, <<255, 0, 0>>}

Networks ==
    [index : [RGBA -> 0..(PaletteMax - 1)],
     rgb : {[i \in 1..PaletteMax |-> c] : c \in NeuronRGB}]

\* lib.rs:316, 321-322
NeuTrain ==
    /\ pc = "neu_train"
    /\ quant' \in Networks
    /\ transparency' = <<>>
    /\ cache' = EmptyMap
    /\ pc' = "neu_map"
    /\ UNCHANGED <<colors, imgs, fps, quantizer, k, width, height, parts, sorted,
                   palette, map, palettized_imgs, palette_bytes, result, first, grouping, frequencies, order>>
    /\ UNCHANGED write_vars

\* lib.rs:326: quant.index_of(&px.data) as u8
index_of(q, px) == q.index[px] % U8

map_pixel_cached_by_rgb(q, st, px) ==
    IF \E c \in DOMAIN st.cache : SubSeq(c, 1, 3) = SubSeq(px, 1, 3)
    THEN [st EXCEPT !.out = Append(@, st.cache[
                CHOOSE c \in DOMAIN st.cache : SubSeq(c, 1, 3) = SubSeq(px, 1, 3)])]
    ELSE LET idx == index_of(q, px)
         IN  [cache |-> [c \in DOMAIN st.cache \cup {px} |->
                            IF c = px THEN idx ELSE st.cache[c]],
              transparency |-> IF px[4] = 0 THEN <<idx>> ELSE st.transparency,
              out |-> Append(st.out, idx)]

\* lib.rs:325-329 for one pixel; st is [cache, transparency, out]
map_pixel(q, st, px) ==
    IF px \in DOMAIN st.cache
    THEN [st EXCEPT !.out = Append(@, st.cache[px])]
    ELSE LET idx == index_of(q, px)
         IN  [cache |-> [c \in DOMAIN st.cache \cup {px} |->
                            IF c = px THEN idx ELSE st.cache[c]],
              transparency |-> IF px[4] = 0 THEN <<idx>> ELSE st.transparency,
              out |-> Append(st.out, idx)]

\* lib.rs:324-330: the pixels of one frame, in raster order, from pixel i on
RECURSIVE map_frame(_, _, _, _)
map_frame(q, st, img, i) ==
    IF i > Len(img.data) THEN st
    ELSE map_frame(q, map_pixel(q, st, img.data[i]), img, i + 1)

\* lib.rs:323-331: imgs.iter() maps the frames one after the other
NeuMapFrame ==
    /\ pc = "neu_map"
    /\ Len(palettized_imgs) < Len(imgs)
    /\ LET st == map_frame(quant,
                           [cache |-> cache, transparency |-> transparency,
                            out |-> <<>>],
                           imgs[Len(palettized_imgs) + 1], 1)
       IN  /\ cache' = st.cache
           /\ transparency' = st.transparency
           /\ palettized_imgs' = Append(palettized_imgs, st.out)
    /\ UNCHANGED <<imgs, fps, quantizer, pc, k, width, height, parts, colors,
                   quant, sorted, palette, map, palette_bytes, result, first, grouping, frequencies, order>>
    /\ UNCHANGED write_vars

\* flat bytes of a sequence of byte tuples
RECURSIVE flatten(_)
flatten(ss) == IF ss = <<>> THEN <<>> ELSE Head(ss) \o flatten(Tail(ss))

\* lib.rs:335: quant.color_map_rgb()
color_map_rgb(q) == flatten(q.rgb)

NeuReturn ==
    /\ pc = "neu_map"
    /\ Len(palettized_imgs) = Len(imgs)
    /\ palette_bytes' = color_map_rgb(quant)
    /\ pc' = "finish"
    /\ UNCHANGED <<imgs, fps, quantizer, k, width, height, parts, colors, quant,
                   cache, transparency, sorted, palette, map, palettized_imgs,
                   result, first, grouping, frequencies, order>>
    /\ UNCHANGED write_vars

\* ------------------------------------------------------ naive_palettize
add_count_overwriting(fr, c, n) ==
    [d \in DOMAIN fr \cup {c} |-> IF d = c THEN n ELSE fr[d]]

\* lib.rs:343-344: fr.entry(c).or_insert(0) += n
add_count(fr, c, n) ==
    [d \in DOMAIN fr \cup {c} |->
        (IF d \in DOMAIN fr THEN fr[d] ELSE 0) + (IF d = c THEN n ELSE 0)]

\* lib.rs:341-346: the frequency table of one frame, from pixel i on
RECURSIVE count_from(_, _, _)
count_from(fr, img, i) ==
    IF i > Len(img.data) THEN fr
    ELSE count_from(add_count(fr, img.data[i], 1), img, i + 1)

count(img) == count_from(EmptyMap, img, 1)

\* lib.rs:347-353: the reduce's operation, every entry of fr added to acc
RECURSIVE merge_entries(_, _, _)
merge_entries(acc, fr, todo) ==
    IF todo = {} THEN acc
    ELSE LET color == CHOOSE c \in todo : TRUE
         IN  merge_entries(add_count(acc, color, fr[color]), fr, todo \ {color})

merge(acc, fr) == merge_entries(acc, fr, DOMAIN fr)

\* lib.rs:347: one task folds the tables lo..hi into acc, left to right
RECURSIVE fold_merge(_, _, _, _)
fold_merge(acc, items, lo, hi) ==
    IF lo > hi THEN acc
    ELSE fold_merge(merge(acc, items[lo]), items, lo + 1, hi)

\* lib.rs:347-353: the reduce over the tables lo..hi, grouped as g
RECURSIVE reduce_merge(_, _, _, _)
reduce_merge(items, g, lo, hi) ==
    IF <<lo, hi>> \in g THEN fold_merge(EmptyMap, items, lo, hi)
    ELSE LET mid == lo + (hi - lo + 1) \div 2
         IN  merge(reduce_merge(items, g, lo, mid - 1),
                   reduce_merge(items, g, mid, hi))

\* lib.rs:340-346: the parallel map gives one table per frame
NaiveCount ==
    /\ pc = "naive"
    /\ parts' = [i \in 1..Len(imgs) |-> count(imgs[i])]
    /\ pc' = "naive_reduce"
    /\ UNCHANGED <<imgs, fps, quantizer, k, width, height, grouping, colors,
                   quant, cache, transparency, frequencies, order, sorted,
                   palette, map, palettized_imgs, palette_bytes, result, first>>
    /\ UNCHANGED write_vars

\* lib.rs:347-353: the reduce, in any of its groupings
NaiveReduce ==
    /\ pc = "naive_reduce"
    /\ \E g \in groupings(1, Len(parts)) :
          /\ frequencies' = reduce_merge(parts, g, 1, Len(parts))
          /\ grouping' = g
    /\ pc' = "naive_sort"
    /\ UNCHANGED <<imgs, fps, quantizer, k, width, height, parts, colors, quant,
                   cache, transparency, order, sorted, palette, map,
                   palettized_imgs, palette_bytes, result, first>>
    /\ UNCHANGED write_vars

\* The orders in which into_iter() may yield the entries of a table: the
\* iteration order of a HashMap is unspecified.  With the fixed hasher of
\* FnvHashMap it follows from the table's history of insertions, that is from
\* the frames and the grouping of the reduce.
iteration_orders(fr) ==
    {s \in [1..Cardinality(DOMAIN fr) -> DOMAIN fr] :
        \A i, j \in 1..Cardinality(DOMAIN fr) : i # j => s[i] # s[j]}

goes_before_ascending(a, b) == a[2] <= b[2]

\* lib.rs:359: b.1.cmp(&a.1) places a before b
goes_before(a, b) == a[2] >= b[2]

\* lib.rs:359: sort_by is stable: e goes behind every entry that is not
\* behind it in the order, s being sorted already
sort_insert(s, e) ==
    LET n == Cardinality({i \in 1..Len(s) : goes_before(s[i], e)})
    IN  SubSeq(s, 1, n) \o <<e>> \o SubSeq(s, n + 1, Len(s))

RECURSIVE sort_by(_, _)
sort_by(done, todo) ==
    IF todo = <<>> THEN done
    ELSE sort_by(sort_insert(done, Head(todo)), Tail(todo))

\* lab's Lab::from_rgb, for the colors of the model, rounded to integers
lab_of_rgb(rgb) ==
    CASE rgb = <<255, 0, 0>> -> <<53, 80, 67>>
      [] rgb = <<0, 0, 0>> -> <<0, 0, 0>>
      [] rgb = <<255, 255, 255>> -> <<100, 0, 0>>

\* lib.rs:361: Lab::from_rgba drops the alpha byte
from_rgba(c) == lab_of_rgb(<<c[1], c[2], c[3]>>)

\* lib.rs:376
squared_distance(p, q) ==
    (p[1] - q[1]) * (p[1] - q[1]) + (p[2] - q[2]) * (p[2] - q[2])
        + (p[3] - q[3]) * (p[3] - q[3])

\* lib.rs:357-362; a run on the same frames with the same grouping as the
\* run before iterates the table in the same order
NaiveSort ==
    /\ pc = "naive_sort"
    /\ \E o \in iteration_orders(frequencies) :
          /\ (first.result.tag = "Gif" /\ first.grouping = grouping) => o = first.order
          /\ order' = o
          /\ LET sorted_frequencies ==
                     sort_by(<<>>, [i \in 1..Len(o) |-> <<o[i], frequencies[o[i]]>>])
             IN  sorted' = [i \in 1..Len(sorted_frequencies) |->
                               <<sorted_frequencies[i][1],
                                 from_rgba(sorted_frequencies[i][1])>>]
    /\ pc' = "naive_palette"
    /\ UNCHANGED <<imgs, fps, quantizer, k, width, height, parts, grouping,
                   colors, quant, cache, transparency, frequencies, palette, map,
                   palettized_imgs, palette_bytes, result, first>>
    /\ UNCHANGED write_vars

palette_of_one_more(s) ==
    IF Len(s) > PaletteMax + 1 THEN SubSeq(s, 1, PaletteMax + 1) ELSE s

\* lib.rs:364-368
palette_of(s) == IF Len(s) > PaletteMax THEN SubSeq(s, 1, PaletteMax) ELSE s

rest_of_skipping_one(s) ==
    IF Len(s) > PaletteMax THEN SubSeq(s, PaletteMax + 2, Len(s)) ELSE <<>>

\* lib.rs:364-368
rest_of(s) ==
    IF Len(s) > PaletteMax THEN SubSeq(s, PaletteMax + 1, Len(s)) ELSE <<>>

closer_farthest(closest, idx, dist) ==
    IF closest[2] # <<>> /\ closest[2][1] > dist THEN closest
    ELSE <<idx, <<dist>>>>

\* lib.rs:377-381: one step of the fold; closest is <<index, distance>>, the
\* distance <<>> for f32::INFINITY and <<d>> otherwise
closer(closest, idx, dist) ==
    IF closest[2] # <<>> /\ closest[2][1] < dist THEN closest
    ELSE <<idx, <<dist>>>>

\* lib.rs:375-382: the fold over the palette, from index idx on
RECURSIVE fold_closest(_, _, _, _)
fold_closest(pal, lab, idx, closest) ==
    IF idx >= Len(pal) THEN closest
    ELSE fold_closest(pal, lab, idx + 1,
                      closer(closest, idx,
                             squared_distance(pal[idx + 1][2], lab)))

closest_index(pal, lab) == fold_closest(pal, lab, 0, <<0, <<>>>>)[1]

\* lib.rs:371-373: st is [map, missing]
RECURSIVE insert_palette(_, _, _)
insert_palette(m, pal, i) ==
    IF i >= Len(pal) THEN m
    ELSE insert_palette([c \in DOMAIN m \cup {pal[i + 1][1]} |->
                            IF c = pal[i + 1][1] THEN i % U8 ELSE m[c]],
                        pal, i + 1)

\* lib.rs:374-386: missing is set when the expect of lib.rs:384 fails
RECURSIVE insert_rest(_, _, _)
insert_rest(st, pal, rest) ==
    IF rest = <<>> \/ st.missing THEN st
    ELSE LET color == Head(rest)
             closest_rgb == pal[closest_index(pal, color[2]) + 1][1]
         IN  IF closest_rgb \notin DOMAIN st.map
             THEN [st EXCEPT !.missing = TRUE]
             ELSE insert_rest(
                     [map |-> [c \in DOMAIN st.map \cup {color[1]} |->
                                  IF c = color[1] THEN st.map[closest_rgb]
                                  ELSE st.map[c]],
                      missing |-> FALSE],
                     pal, Tail(rest))

\* lib.rs:364-386
NaivePalette ==
    /\ pc = "naive_palette"
    /\ LET st == insert_rest([map |-> insert_palette(EmptyMap, palette_of(sorted), 0),
                              missing |-> FALSE],
                             palette_of(sorted), rest_of(sorted))
       IN  IF st.missing
           THEN /\ result' = Panic
                /\ pc' = "done"
                /\ UNCHANGED <<palette, map>>
           ELSE /\ palette' = palette_of(sorted)
                /\ map' = st.map
                /\ pc' = "naive_map"
                /\ result' = result
    /\ UNCHANGED <<imgs, fps, quantizer, k, width, height, parts, colors, quant,
                   cache, transparency, sorted, palettized_imgs, palette_bytes,
                   first, grouping, frequencies, order>>
    /\ UNCHANGED write_vars

\* lib.rs:392-394: the index frame of one frame
palettize(m, img) == [i \in 1..Len(img.data) |-> m[img.data[i]]]

\* lib.rs:399-402
RECURSIVE palette_as_bytes(_)
palette_as_bytes(pal) ==
    IF pal = <<>> THEN <<>>
    ELSE SubSeq(Head(pal)[1], 1, 3) \o palette_as_bytes(Tail(pal))

\* lib.rs:391-404: the expect of lib.rs:393 fails on a color the map lacks
NaiveMap ==
    /\ pc = "naive_map"
    /\ IF \E i \in 1..Len(imgs) : \E j \in 1..Len(imgs[i].data) :
             imgs[i].data[j] \notin DOMAIN map
       THEN /\ result' = Panic
            /\ pc' = "done"
            /\ UNCHANGED <<palettized_imgs, palette_bytes, transparency>>
       ELSE /\ palettized_imgs' = [i \in 1..Len(imgs) |-> palettize(map, imgs[i])]
            /\ palette_bytes' = palette_as_bytes(palette)
            /\ transparency' = <<>>
            /\ pc' = "finish"
            /\ result' = result
    /\ UNCHANGED <<imgs, fps, quantizer, k, width, height, parts, colors, quant,
                   cache, sorted, palette, map, first, grouping,
                   frequencies, order>>
    /\ UNCHANGED write_vars

\* ----------------------------------------------------- engiffen, the end
delay_of_hundredths(f) == (100 \div f) % U16

\* lib.rs:276: (1000 / fps) as u16
delay_of(f) == (1000 \div f) % U16

\* lib.rs:276-285
Finish ==
    /\ pc = "finish"
    /\ result' = IF fps = 0 THEN Panic
                 ELSE Ok([palette |-> palette_bytes,
                          transparency |-> transparency,
                          width |-> width % FieldSize,
                          height |-> height % FieldSize,
                          images |-> palettized_imgs,
                          delay |-> delay_of(fps)])
    /\ pc' = "done"
    /\ UNCHANGED <<imgs, fps, quantizer, k, width, height, parts, colors, quant,
                   cache, transparency, sorted, palette, map, palettized_imgs,
                   palette_bytes, first, grouping, frequencies, order>>
    /\ UNCHANGED write_vars

\* the caller runs engiffen once more on the same frames; the Gif of the
\* run before is kept for comparison
Rerun ==
    /\ pc = "done"
    /\ result.tag = "Gif"
    /\ quantizer = Naive
    /\ first = NoFirst
    /\ wpc = "idle"
    /\ first' = [result |-> result, grouping |-> grouping, order |-> order]
    /\ pc' = "start"
    /\ k' = 0
    /\ width' = 0
    /\ height' = 0
    /\ parts' = <<>>
    /\ grouping' = {}
    /\ colors' = <<>>
    /\ quant' = NoQuant
    /\ cache' = EmptyMap
    /\ transparency' = <<>>
    /\ frequencies' = EmptyMap
    /\ order' = <<>>
    /\ sorted' = <<>>
    /\ palette' = <<>>
    /\ map' = EmptyMap
    /\ palettized_imgs' = <<>>
    /\ palette_bytes' = <<>>
    /\ result' = NoResult
    /\ UNCHANGED <<imgs, fps, quantizer>>
    /\ UNCHANGED write_vars

\* -------------------------------------------------------------- Gif::write
\* The encoder is the gif crate's; what a call of write hands it is recorded
\* in calls, one entry per call, with whether the call succeeded.  Any call
\* may fail: the output is any io::Write.
call(c, ok) == [op |-> c.op, arg |-> c.arg, ok |-> ok]

\* lib.rs:171: Encoder::new(&mut out, self.width, self.height, &self.palette)
encoder_new(g) == [op |-> "new", arg |-> <<g.width, g.height, g.palette>>]

\* lib.rs:172: encoder.set(Repeat::Infinite)
encoder_set == [op |-> "set", arg |-> <<"Repeat::Infinite">>]

frame_delay_undivided(delay) == delay

\* lib.rs:175: self.delay / 10
frame_delay(delay) == delay \div 10

\* lib.rs:174-179
frame_of(g, img) ==
    [delay |-> frame_delay(g.delay), width |-> g.width, height |-> g.height,
     buffer |-> img, transparent |-> g.transparency]

\* lib.rs:180: encoder.write_frame(&frame)
encoder_write_frame(g, img) == [op |-> "write_frame", arg |-> <<frame_of(g, img)>>]

try_ignoring_failure(ok, next) == [wpc |-> next, wresult |-> "none"]

\* the ? of lib.rs:171, 172 and 180: a failure is returned from write at once
try(ok, next) ==
    IF ok THEN [wpc |-> next, wresult |-> "none"]
    ELSE [wpc |-> "done", wresult |-> "Err"]

\* lib.rs:171; write is followed on the Gif of a first run: a run after it
\* returns no Gif a first run cannot return
WriteNew ==
    /\ pc = "done"
    /\ result.tag = "Gif"
    /\ first = NoFirst
    /\ wpc = "idle"
    /\ \E ok \in BOOLEAN :
          /\ calls' = Append(calls, call(encoder_new(result.gif), ok))
          /\ wpc' = try(ok, "set").wpc
          /\ wresult' = try(ok, "set").wresult
    /\ UNCHANGED engiffen_vars

\* lib.rs:172
WriteSet ==
    /\ wpc = "set"
    /\ \E ok \in BOOLEAN :
          /\ calls' = Append(calls, call(encoder_set, ok))
          /\ wpc' = try(ok, "frames").wpc
          /\ wresult' = try(ok, "frames").wresult
    /\ UNCHANGED engiffen_vars

\* the frames the loop of lib.rs:173 has gone through
frames_written == Len(calls) - 2

\* lib.rs:173-181: one iteration of the loop
WriteFrame ==
    /\ wpc = "frames"
    /\ frames_written < Len(result.gif.images)
    /\ \E ok \in BOOLEAN :
          /\ calls' = Append(calls,
                 call(encoder_write_frame(result.gif,
                                          result.gif.images[frames_written + 1]), ok))
          /\ wpc' = try(ok, "frames").wpc
          /\ wresult' = try(ok, "frames").wresult
    /\ UNCHANGED engiffen_vars

\* lib.rs:182: the loop is over
WriteOk ==
    /\ wpc = "frames"
    /\ frames_written >= Len(result.gif.images)
    /\ wpc' = "done"
    /\ wresult' = "Ok"
    /\ UNCHANGED <<calls, engiffen_vars>>

Next ==
    \/ CheckEmpty
    \/ CheckDim
    \/ DimsDone
    \/ NeuSample
    \/ NeuReduce
    \/ NeuTrain
    \/ NeuMapFrame
    \/ NeuReturn
    \/ NaiveCount
    \/ NaiveReduce
    \/ NaiveSort
    \/ NaivePalette
    \/ NaiveMap
    \/ Finish
    \/ Rerun
    \/ WriteNew
    \/ WriteSet
    \/ WriteFrame
    \/ WriteOk

Spec == Init /\ [][Next]_vars

\* ------------------------------------------------------------ properties
Done == pc = "done"

Succeeded == pc = "done" /\ result.tag = "Gif"

SameDimensions == \A i \in 1..Len(imgs) : dimensions(imgs[i]) = dimensions(imgs[1])

\* the frames that do not have the size of the first frame
Divergent == {i \in 1..Len(imgs) : dimensions(imgs[i]) # dimensions(imgs[1])}

LowestOf(S) == CHOOSE i \in S : \A j \in S : i <= j

\* C1: when some frame's (width, height) differs from the first frame's,
\* engiffen returns Mismatch(d0, dk), d0 the first frame's dimensions and dk
\* those of the lowest-indexed frame that differs, for either quantizer and
\* any fps.
C1_MismatchOfFirstDivergent ==
    (Done /\ Divergent # {}) =>
        result = ErrMismatch(dimensions(imgs[1]),
                             dimensions(imgs[LowestOf(Divergent)]))

\* two later frames differ from the first one, and from each other
C1_Witness ==
    /\ Done
    /\ result.tag = "Mismatch"
    /\ Divergent = {2, 3}
    /\ dimensions(imgs[2]) # dimensions(imgs[3])
    /\ fps = 0
    /\ quantizer = NeuQuant(0)

\* C2: for an empty frame sequence engiffen returns NoImages, for every fps
\* and every quantizer, and no other step of the call runs before that.
C2_EmptyGivesNoImages ==
    imgs = <<>> =>
        /\ pc \in {"start", "done"}
        /\ pc = "start" => result = NoResult
        /\ pc = "done" => result = ErrNoImages
        /\ parts = <<>> /\ colors = <<>> /\ quant = NoQuant
        /\ frequencies = EmptyMap /\ sorted = <<>>
        /\ palettized_imgs = <<>> /\ palette_bytes = <<>>

C2_Witness ==
    /\ imgs = <<>>
    /\ result = ErrNoImages
    /\ fps = 0
    /\ quantizer = NeuQuant(0)

\* C3: for every non-empty frame sequence of one common width W and height H
\* and for either quantizer, engiffen returns a Gif with one index frame per
\* input frame, in input order, each of exactly W x H entries.
C3_OneIndexFramePerFrame ==
    (Done /\ imgs # <<>> /\ SameDimensions) =>
        /\ result.tag = "Gif"
        /\ Len(result.gif.images) = Len(imgs)
        /\ \A i \in 1..Len(imgs) :
              Len(result.gif.images[i]) = imgs[i].width * imgs[i].height

\* the positions of all pixels, <<frame, pixel>>, and the colors found there
Positions ==
    UNION {{<<i, j>> : j \in 1..Len(imgs[i].data)} : i \in 1..Len(imgs)}

ColorAt(q) == imgs[q[1]].data[q[2]]

DistinctColors == {ColorAt(q) : q \in Positions}

Frequency(c) == Cardinality({q \in Positions : ColorAt(q) = c})

Min(a, b) == IF a < b THEN a ELSE b

\* C4: on success the palette holds at most 256 colors (PaletteMax in the
\* model), three bytes each; under Naive it holds exactly as many colors as
\* there are distinct RGBA values, capped at that ceiling.
C4_PaletteSize ==
    Succeeded =>
        /\ Len(result.gif.palette) <= 3 * PaletteMax
        /\ Len(result.gif.palette) % 3 = 0
        /\ quantizer = Naive =>
              Len(result.gif.palette)
                  = 3 * Min(Cardinality(DistinctColors), PaletteMax)

\* more distinct colors than the palette holds
C4_Witness ==
    /\ Succeeded
    /\ quantizer = Naive
    /\ Cardinality(DistinctColors) > PaletteMax
    /\ Len(result.gif.palette) = 3 * PaletteMax

PaletteColors == [i \in 1..Len(palette) |-> palette[i][1]]

InPalette(c) == \E i \in 1..Len(palette) : PaletteColors[i] = c

LabDistance(c, d) == squared_distance(from_rgba(c), from_rgba(d))

\* C6: under Naive with more distinct colors than the palette holds, the
\* palette is made of the most frequent colors, a pixel of a palette color
\* gets that color's own index, and any other pixel gets the index of a
\* palette color at minimal squared Lab distance from its color.
C6_OverflowGoesToClosest ==
    (Succeeded /\ quantizer = Naive /\ Cardinality(DistinctColors) > PaletteMax) =>
        /\ Len(palette) = PaletteMax
        /\ \A i \in 1..Len(palette) : \A c \in DistinctColors :
              ~InPalette(c) => Frequency(PaletteColors[i]) >= Frequency(c)
        /\ \A q \in Positions :
              LET idx == result.gif.images[q[1]][q[2]]
              IN  /\ idx < Len(palette)
                  /\ InPalette(ColorAt(q)) => PaletteColors[idx + 1] = ColorAt(q)
                  /\ ~InPalette(ColorAt(q)) =>
                        \A i \in 1..Len(palette) :
                           LabDistance(PaletteColors[idx + 1], ColorAt(q))
                              <= LabDistance(PaletteColors[i], ColorAt(q))

\* a color outside the palette whose distances to the palette colors differ,
\* mapped to the first palette slot
C6_Witness ==
    /\ Succeeded
    /\ quantizer = Naive
    /\ Cardinality(DistinctColors) > PaletteMax
    /\ \E q \in Positions :
          /\ ~InPalette(ColorAt(q))
          /\ result.gif.images[q[1]][q[2]] = 0
          /\ \E i \in 1..Len(palette) :
                LabDistance(PaletteColors[1], ColorAt(q))
                   < LabDistance(PaletteColors[i], ColorAt(q))

RedSquare == Image(2, 2, <<Red, Red, Red, Red>>)

\* C7: under Naive with no more distinct colors than the palette holds, the
\* palette has one slot per distinct color, in non-increasing order of
\* frequency, every pixel's index is the slot of its exact RGB (the slot of
\* its own color), and there is no transparency index; three 2x2 red frames
\* give a palette of one color and three index frames [0,0,0,0].
C7_OneSlotPerColor ==
    (Succeeded /\ quantizer = Naive /\ Cardinality(DistinctColors) <= PaletteMax) =>
        /\ Len(result.gif.palette) = 3 * Cardinality(DistinctColors)
        /\ {PaletteColors[i] : i \in 1..Len(palette)} = DistinctColors
        /\ \A i, j \in 1..Len(palette) :
              i < j => Frequency(PaletteColors[i]) >= Frequency(PaletteColors[j])
        /\ \A q \in Positions :
              LET idx == result.gif.images[q[1]][q[2]]
              IN  /\ PaletteColors[idx + 1] = ColorAt(q)
                  /\ SubSeq(result.gif.palette, 3 * idx + 1, 3 * idx + 3)
                        = SubSeq(ColorAt(q), 1, 3)
        /\ result.gif.transparency = <<>>
        /\ imgs = <<RedSquare, RedSquare, RedSquare>> =>
              /\ result.gif.palette = <<255, 0, 0>>
              /\ result.gif.images = <<<<0, 0, 0, 0>>, <<0, 0, 0, 0>>, <<0, 0, 0, 0>>>>

\* two colors of different frequencies, the rarer one first in the frames
C7_Witness ==
    /\ Succeeded
    /\ quantizer = Naive
    /\ Cardinality(DistinctColors) = 2
    /\ Frequency(ColorAt(<<1, 1>>)) < Frequency(PaletteColors[1])
    /\ result.gif.images[1][1] = 1

\* the positions of the pixels of alpha 0, and the last of them in frame
\* order, then raster order
Transparent == {q \in Positions : ColorAt(q)[4] = 0}

Later(p, q) == p[1] > q[1] \/ (p[1] = q[1] /\ p[2] >= q[2])

LastTransparent == CHOOSE p \in Transparent : \A q \in Transparent : Later(p, q)

\* C8: under NeuQuant, after all frames were mapped, the transparency index
\* is present exactly when some pixel has alpha 0, and is then the index the
\* quantizer gives the last such pixel in frame order, then raster order.
C8_TransparencyOfLastClearPixel ==
    (Succeeded /\ quantizer.kind = "NeuQuant") =>
        /\ result.gif.transparency # <<>> <=> Transparent # {}
        /\ Transparent # {} =>
              result.gif.transparency
                  = <<quant.index[ColorAt(LastTransparent)] % U8>>

\* the sampled pixels of a run with stride S >= 1, and the entry of each
Sampled ==
    {q \in Positions :
        /\ ((q[2] - 1) % imgs[q[1]].width) % quantizer.sample_rate = 0
        /\ ((q[2] - 1) \div imgs[q[1]].width) % quantizer.sample_rate = 0}

EntryOf(c) == IF c[4] = 0 THEN <<0, 0, 0, 0>> ELSE <<c[1], c[2], c[3], 255>>

Entries == 1..(Len(colors) \div 4)

EntryAt(n) == SubSeq(colors, 4 * n - 3, 4 * n)

\* C9: for a stride S >= 1 the training sample holds exactly one 4-byte entry
\* for each pixel whose x and y are both multiples of S, none for any other
\* pixel; the entry is (0,0,0,0) for a pixel of alpha 0, else (R,G,B,255).
C9_SampleOfStride ==
    (quantizer.kind = "NeuQuant" /\ quantizer.sample_rate >= 1
        /\ pc \in {"neu_train", "neu_map", "finish", "done"}
        /\ result.tag # "Mismatch") =>
        /\ Len(colors) = 4 * Cardinality(Sampled)
        /\ \A e \in {EntryOf(c) : c \in RGBA} \cup {EntryAt(n) : n \in Entries} :
              Cardinality({n \in Entries : EntryAt(n) = e})
                  = Cardinality({q \in Sampled : EntryOf(ColorAt(q)) = e})

\* a 2x2 frame sampled with stride 2: one entry, of a translucent pixel
C9_Witness ==
    /\ quantizer = NeuQuant(2)
    /\ pc = "neu_train"
    /\ Len(imgs) = 1
    /\ imgs[1].height = 2
    /\ imgs[1].data[1] = RedHalf
    /\ imgs[1].data[2] = ClearWhite
    /\ colors = <<255, 0, 0, 255>>

\* C10: under NeuQuant every pixel of every frame gets the index the
\* quantizer's lookup gives its raw RGBA value, whatever the stride; the
\* cache of resolved colors changes no entry.
C10_EveryPixelLookedUp ==
    quantizer.kind = "NeuQuant" =>
        /\ \A i \in 1..Len(palettized_imgs) :
              /\ Len(palettized_imgs[i]) = Len(imgs[i].data)
              /\ \A j \in 1..Len(imgs[i].data) :
                    palettized_imgs[i][j] = quant.index[imgs[i].data[j]] % U8
        /\ pc = "finish" => Len(palettized_imgs) = Len(imgs)
        /\ Succeeded => result.gif.images = palettized_imgs

\* a trained stride of 2, and two colors of the same RGB that the quantizer
\* tells apart, the second one met after the first was cached
C10_Witness ==
    /\ Succeeded
    /\ quantizer = NeuQuant(2)
    /\ Len(imgs) = 1
    /\ imgs[1].data = <<Red, RedHalf, Red>>
    /\ result.gif.images = <<<<0, 1, 0>>>>

\* the calls of write that wrote a frame
FrameCalls == {i \in 1..Len(calls) : calls[i].op = "write_frame"}

\* C11: for every positive fps the Gif's delay is floor(1000 / fps), with no
\* wrap-around in its 16 bits, and write gives every frame the delay
\* floor(delay / 10); fps = 30 gives the delay 33 and the frame delay 3.
C11_DelayOfFps ==
    (Succeeded /\ fps > 0) =>
        /\ result.gif.delay = 1000 \div fps
        /\ \A i \in FrameCalls :
              calls[i].arg[1].delay = (1000 \div fps) \div 10
        /\ fps = 30 =>
              /\ result.gif.delay = 33
              /\ \A i \in FrameCalls : calls[i].arg[1].delay = 3

\* two frames written at 7 frames a second: the delay 142, written as 14
C11_Witness ==
    /\ Succeeded
    /\ fps = 7
    /\ wresult = "Ok"
    /\ Cardinality(FrameCalls) = 2
    /\ result.gif.delay = 142
    /\ \A i \in FrameCalls : calls[i].arg[1].delay = 14

\* the RGB bytes of the palette slot of index i, from 0, of the returned Gif
SlotRGB(i) == SubSeq(result.gif.palette, 3 * i + 1, 3 * i + 3)

Slots == 0..((Len(result.gif.palette) \div 3) - 1)

\* C12: under Naive no two palette positions of the returned Gif hold the
\* same RGB color, also when the frames hold colors that differ only in
\* their alpha byte.
C12_PaletteBijective ==
    (Succeeded /\ quantizer = Naive) =>
        \A i, j \in Slots : i # j => SlotRGB(i) # SlotRGB(j)

\* the palette slots at minimal squared Lab distance from the color c
Nearest(c) ==
    {i \in 1..Len(palette) :
        \A j \in 1..Len(palette) :
           LabDistance(PaletteColors[i], c) <= LabDistance(PaletteColors[j], c)}

\* C13: under Naive with more distinct colors than the palette holds, a color
\* outside the palette with several palette colors at the same minimal
\* squared Lab distance gets the lowest of their indices.
C13_TieGoesToFirst ==
    (Succeeded /\ quantizer = Naive /\ Cardinality(DistinctColors) > PaletteMax) =>
        \A q \in Positions :
           ~InPalette(ColorAt(q)) =>
              result.gif.images[q[1]][q[2]] + 1 = LowestOf(Nearest(ColorAt(q)))

\* the sum of the counts the table fr holds for the colors of S
RECURSIVE SumOf(_, _)
SumOf(fr, S) ==
    IF S = {} THEN 0
    ELSE LET c == CHOOSE d \in S : TRUE
         IN  fr[c] + SumOf(fr, S \ {c})

\* C14: in naive_palettize the merged frequency table is the same for every
\* grouping of the parallel reduce, empty identity tables included: it
\* gives every color the number of pixels of exactly that RGBA value over
\* all frames, and its counts add up to frames x width x height.
C14_MergedCountsAreTotals ==
    (quantizer = Naive /\ pc \in {"naive_sort", "naive_palette", "naive_map", "finish"}) =>
        /\ DOMAIN frequencies = DistinctColors
        /\ \A c \in DistinctColors : frequencies[c] = Frequency(c)
        /\ SumOf(frequencies, DOMAIN frequencies) = Len(imgs) * width * height

\* three frames reduced as three tasks, each from its own empty table, a
\* color counted in two of them
C14_Witness ==
    /\ quantizer = Naive
    /\ pc = "naive_sort"
    /\ Len(imgs) = 3
    /\ grouping = {<<1, 1>>, <<2, 2>>, <<3, 3>>}
    /\ imgs[1] = imgs[3]
    /\ imgs[1] # imgs[2]
    /\ frequencies[ColorAt(<<1, 1>>)] = 2

\* some step of a quantizer has run, or is about to: sampling, counting,
\* training, mapping
InQuantizer ==
    pc \in {"neuquant", "neu_reduce", "neu_train", "neu_map", "naive",
            "naive_reduce", "naive_sort", "naive_palette", "naive_map", "finish"}

Worked ==
    \/ parts # <<>> \/ colors # <<>> \/ quant # NoQuant \/ cache # EmptyMap
    \/ frequencies # EmptyMap \/ sorted # <<>> \/ palette # <<>>
    \/ map # EmptyMap \/ palettized_imgs # <<>> \/ palette_bytes # <<>>

\* C15: the emptiness check and then the dimension check of every frame are
\* over before any sampling, counting, training or mapping starts; a call
\* that returns NoImages or Mismatch has done none of these and yields no
\* Gif, whole or partial.
C15_ChecksComeFirst ==
    /\ (InQuantizer \/ Worked) =>
          /\ imgs # <<>>
          /\ SameDimensions
          /\ k = Len(imgs) + 1
    /\ result.tag \in {"NoImages", "Mismatch"} =>
          /\ pc = "done"
          /\ ~Worked
          /\ result.gif = NoGif
          /\ calls = <<>>

\* the last of three frames is the one that differs
C15_Witness ==
    /\ Done
    /\ result.tag = "Mismatch"
    /\ Divergent = {3}
    /\ k = 3
    /\ quantizer = NeuQuant(1)
    /\ ~Worked

\* what write is to hand the encoder, in order: the encoder's creation, the
\* looping, and one frame per index frame of the Gif
ExpectedCalls ==
    LET g == result.gif
    IN  << [op |-> "new", arg |-> <<g.width, g.height, g.palette>>],
           [op |-> "set", arg |-> <<"Repeat::Infinite">>] >>
        \o [i \in 1..Len(g.images) |->
               [op |-> "write_frame",
                arg |-> << [delay |-> g.delay \div 10, width |-> g.width,
                            height |-> g.height, buffer |-> g.images[i],
                            transparent |-> g.transparency] >>]]

\* C16: write creates the encoder with the Gif's width, height and palette,
\* then sets infinite looping once, then writes one frame per index frame in
\* stored order, each with the Gif's width, height, transparency index and
\* delay / 10; a step that fails ends write with that failure at once, with
\* no retry and no later frame, and Ok is returned only after every frame
\* was written.
C16_WriteInOrderUntilFailure ==
    /\ Len(calls) <= Len(ExpectedCalls)
    /\ \A i \in 1..Len(calls) :
          /\ calls[i].op = ExpectedCalls[i].op
          /\ calls[i].arg = ExpectedCalls[i].arg
          /\ ~calls[i].ok => (i = Len(calls) /\ wresult = "Err")
    /\ wresult = "Err" => (calls # <<>> /\ ~calls[Len(calls)].ok)
    /\ wresult = "Ok" =>
          /\ Len(calls) = Len(ExpectedCalls)
          /\ \A i \in 1..Len(calls) : calls[i].ok
    /\ wresult # "none" <=> wpc = "done"

\* the second of three frames is rejected: write has returned the failure
\* and the third frame was not handed over
C16_Witness ==
    /\ Len(result.gif.images) = 3
    /\ result.gif.transparency # <<>>
    /\ Len(calls) = 4
    /\ calls[3].ok
    /\ ~calls[4].ok
    /\ wresult = "Err"

\* C17: under Naive, for non-empty frames of one size, the color-to-index
\* map holds every exact RGBA value of every frame, and every index in it,
\* hence every entry of every index frame, is smaller than the number of
\* colors of the returned palette; neither expect() of naive_palettize
\* fails (the only panic left is the division by an fps of 0).
C17_NaiveLookupsSucceed ==
    quantizer = Naive =>
        /\ (pc \in {"naive_map", "finish"} \/ Succeeded) =>
              /\ DistinctColors \subseteq DOMAIN map
              /\ \A c \in DOMAIN map : map[c] < Len(palette)
        /\ Succeeded =>
              /\ Len(result.gif.palette) = 3 * Len(palette)
              /\ \A q \in Positions :
                    result.gif.images[q[1]][q[2]] < Len(result.gif.palette) \div 3
        /\ result.tag = "panic" =>
              /\ fps = 0
              /\ Len(palettized_imgs) = Len(imgs)

\* four distinct colors, two of them outside the palette, all looked up
C17_Witness ==
    /\ Succeeded
    /\ quantizer = Naive
    /\ Cardinality(DistinctColors) = 4
    /\ Len(palette) = PaletteMax
    /\ Len(result.gif.images[1]) = 4

\* C18: on success the Gif's width and height are the common width and
\* height of the frames, so that every index frame has Gif.width x
\* Gif.height entries, also for frames as wide or as high as the fields
\* have values, or more.
C18_GifHasFrameDimensions ==
    Succeeded =>
        /\ result.gif.width = imgs[1].width
        /\ result.gif.height = imgs[1].height
        /\ \A i \in 1..Len(result.gif.images) :
              Len(result.gif.images[i]) = result.gif.width * result.gif.height

====
